---- MODULE Spec2Model ----
(***************************************************************************)
(* A model of model/util/parameter_set.py (class ParameterSet) and of the  *)
(* tolerant comparison of model/util/values.py (value_eq), over the two    *)
(* schemas that model/tests/test_parameter_set.py declares (SamplePS and   *)
(* its subclass ChildPS).                                                  *)
(*                                                                         *)
(* Python values are tagged records.  Numbers are integers counted in      *)
(* units of 1e-6, so that the absolute threshold of value_eq is one unit:  *)
(* 3.14 is 3140000 and 20 is 20000000.                                     *)
(*                                                                         *)
(* Only the field declarations of the two schemas are taken from the test  *)
(* module.  ChildPS.__init__ there post-processes childParamB after the    *)
(* base constructor has run; that is behaviour of the fixture, not of      *)
(* ParameterSet, and it is not part of this model.                         *)
(***************************************************************************)
EXTENDS Integers, Sequences, FiniteSets, TLC

VARIABLES heap, origin, last, nops, pc

vars == <<heap, origin, last, nops, pc>>

(***************************************************************************)
(* Bounds of the model.                                                    *)
(***************************************************************************)
MaxInst == 3
MaxOps == 3

(***************************************************************************)
(* Python values.                                                          *)
(***************************************************************************)
None == [k |-> "none"]
NaN == [k |-> "nan"]
Num(n) == [k |-> "num", n |-> n]
Str(s) == [k |-> "str", s |-> s]

\* pd.DataFrame: ordered column labels, ordered row keys, numeric cells.
DataFrame(cols, idx, cell) == [k |-> "df", cols |-> cols, idx |-> idx, cell |-> cell]

\* A Python dict with ordered keys.
Dict(keys, items) == [k |-> "dict", keys |-> keys, items |-> items]

EmptyDict == Dict(<< >>, << >>)

\* The dict {'value': v, 'meta': m} that groups a value with its metadata.
ValueMeta(v, m) == Dict(<<"value", "meta">>, [x \in {"value", "meta"} |-> IF x = "value" THEN v ELSE m])

Range(s) == {s[i] : i \in DOMAIN s}

IsDict(v) == v.k = "dict"
IsDataFrame(v) == v.k = "df"
IsStr(v) == v.k = "str"

(***************************************************************************)
(* values.py                                                               *)
(***************************************************************************)
\* The default thresh of value_eq, and the rel=1e-6 it passes to approx,
\* as the denominator of the relative tolerance.
Thresh == 1
RelDenom == 1000000

Abs(n) == IF n < 0 THEN 0 - n ELSE n

pseudo_nan(x) == x = None \/ x = Str("") \/ x = NaN

\* Mutant: pseudo_zero that knows the number zero only.
pseudo_zero_number(x) == x = Num(0)

pseudo_zero(x) == x = Num(0) \/ pseudo_nan(x)

\* actual == pytest.approx(expected, abs=thresh, rel=1e-6, nan_ok=True)
\* for scalar operands.
approx_eq(actual, expected) ==
    IF actual = expected /\ actual # NaN THEN TRUE
    ELSE IF ~(actual.k \in {"num", "nan"} /\ expected.k \in {"num", "nan"}) THEN FALSE
    ELSE IF expected = NaN THEN actual = NaN
    ELSE IF actual = NaN THEN FALSE
    ELSE LET diff == Abs(expected.n - actual.n)
             rel == Abs(expected.n) \div RelDenom
             tolerance == IF rel > Thresh THEN rel ELSE Thresh
         IN  diff <= tolerance

RECURSIVE value_eq(_, _, _)
RECURSIVE df_value_eq(_, _, _)

\* Mutant: df_value_eq that compares the labels as sets.
df_value_eq_unordered(v1, v2, all_zero) ==
    IF Range(v1.idx) # Range(v2.idx) THEN FALSE
    ELSE IF Range(v1.cols) # Range(v2.cols) THEN FALSE
    ELSE \A c \in Range(v1.cols) : \A r \in Range(v1.idx) :
            value_eq(v1.cell[c][r], v2.cell[c][r], all_zero)

df_value_eq(v1, v2, all_zero) ==
    IF v1.idx # v2.idx THEN FALSE
    ELSE IF v1.cols # v2.cols THEN FALSE
    ELSE \A c \in Range(v1.cols) : \A r \in Range(v1.idx) :
            value_eq(v1.cell[c][r], v2.cell[c][r], all_zero)

value_eq(v1, v2, all_zero) ==
    IF IsDataFrame(v1) THEN IsDataFrame(v2) /\ df_value_eq(v1, v2, all_zero)
    ELSE IF IsDataFrame(v2) THEN FALSE
    ELSE IF IsStr(v1) /\ IsStr(v2) THEN v1 = v2
    ELSE LET a == IF all_zero /\ pseudo_zero(v1) THEN Num(0) ELSE v1
             b == IF all_zero /\ pseudo_zero(v2) THEN Num(0) ELSE v2
         IN  (a = None /\ b = None) \/ approx_eq(a, b)

(***************************************************************************)
(* values.py, the summary statistics.  A statistic returns a number, NaN,  *)
(* an exact fraction or a deviation (a mean plus or minus the square root  *)
(* of a fraction), or raises statistics.StatisticsError.  slow_dev and     *)
(* shi_dev are called with their default n=1 and minzero=False.            *)
(***************************************************************************)
StatisticsError == [k |-> "raise", exc |-> "StatisticsError"]
IsRaise(v) == v.k = "raise"

Frac(n, d) == [k |-> "frac", num |-> n, den |-> d]
Dev(mean, sign, variance) == [k |-> "dev", mean |-> mean, sign |-> sign, variance |-> variance]

filter_nans(vs) == SelectSeq(vs, LAMBDA x : ~pseudo_nan(x))

RECURSIVE sum(_)
sum(vs) == IF vs = << >> THEN 0 ELSE Head(vs).n + sum(Tail(vs))

RECURSIVE sum_sq(_)
sum_sq(vs) == IF vs = << >> THEN 0 ELSE Head(vs).n * Head(vs).n + sum_sq(Tail(vs))

RECURSIVE insert(_, _)
insert(x, vs) ==
    IF vs = << >> THEN <<x>>
    ELSE IF x.n <= Head(vs).n THEN <<x>> \o vs
    ELSE <<Head(vs)>> \o insert(x, Tail(vs))

RECURSIVE sorted(_)
sorted(vs) == IF vs = << >> THEN << >> ELSE insert(Head(vs), sorted(Tail(vs)))

\* statistics.mean: raises on no data.
statistics_mean(vs) ==
    IF Len(vs) < 1 THEN StatisticsError ELSE Frac(sum(vs), Len(vs))

\* statistics.median: raises on no data.
statistics_median(vs) ==
    LET data == sorted(vs)
        n == Len(vs)
        i == n \div 2
    IN  IF n = 0 THEN StatisticsError
        ELSE IF n % 2 = 1 THEN data[i + 1]
        ELSE Frac(data[i].n + data[i + 1].n, 2)

\* statistics.quantiles(vs), n=4, method='exclusive': raises on fewer than
\* two data points.
statistics_quantiles(vs) ==
    LET data == sorted(vs)
        ld == Len(vs)
        m == ld + 1
        cut(i) ==
            LET j0 == (i * m) \div 4
                j == IF j0 < 1 THEN 1 ELSE IF j0 > ld - 1 THEN ld - 1 ELSE j0
                delta == i * m - j * 4
            IN  Frac(data[j].n * (4 - delta) + data[j + 1].n * delta, 4)
    IN  IF ld < 2 THEN StatisticsError ELSE <<cut(1), cut(2), cut(3)>>

\* statistics.pvariance: raises on no data.
statistics_pvariance(vs) ==
    LET n == Len(vs)
    IN  IF n < 1 THEN StatisticsError
        ELSE Frac(n * sum_sq(vs) - sum(vs) * sum(vs), n * n)

\* statistics.stdev, the square root of the sample variance: raises on fewer
\* than two data points.  The result is given by its square.
statistics_stdev(vs) ==
    LET n == Len(vs)
    IN  IF n < 2 THEN StatisticsError
        ELSE Frac(n * sum_sq(vs) - sum(vs) * sum(vs), n * (n - 1))

smin(vs0) ==
    LET vs == filter_nans(vs0)
    IN  IF Len(vs) # 0 THEN sorted(vs)[1] ELSE NaN

smax(vs0) ==
    LET vs == filter_nans(vs0)
    IN  IF Len(vs) # 0 THEN sorted(vs)[Len(vs)] ELSE NaN

smean(vs0) ==
    LET vs == filter_nans(vs0)
    IN  IF Len(vs) # 0 THEN statistics_mean(vs) ELSE NaN

smedian(vs0) ==
    LET vs == filter_nans(vs0)
    IN  IF Len(vs) # 0 THEN statistics_median(vs) ELSE NaN

s25_ile(vs0) ==
    LET vs == filter_nans(vs0)
    IN  IF Len(vs) > 2 THEN statistics_quantiles(vs)[1] ELSE NaN

s75_ile(vs0) ==
    LET vs == filter_nans(vs0)
    IN  IF Len(vs) > 2 THEN statistics_quantiles(vs)[3] ELSE NaN

spvar(vs0) ==
    LET vs == filter_nans(vs0)
    IN  IF Len(vs) # 0 THEN statistics_pvariance(vs) ELSE NaN

\* ssdev guards against no data only; the square root is taken of the
\* sample variance.
ssdev(vs0) ==
    LET vs == filter_nans(vs0)
        sd == statistics_stdev(vs)
    IN  IF Len(vs) # 0
        THEN (IF IsRaise(sd) THEN sd ELSE Dev(Frac(0, 1), 1, sd))
        ELSE NaN

slow_dev(vs0) ==
    LET vs == filter_nans(vs0)
        mean == statistics_mean(vs)
        sd == statistics_stdev(vs)
    IN  IF Len(vs) # 0
        THEN (IF IsRaise(mean) THEN mean
              ELSE IF IsRaise(sd) THEN sd
              ELSE Dev(mean, 0 - 1, sd))
        ELSE NaN

\* shi_dev takes the mean before it looks at the number of data points.
shi_dev(vs0) ==
    LET vs == filter_nans(vs0)
        mean == statistics_mean(vs)
        sd == statistics_stdev(vs)
    IN  IF IsRaise(mean) THEN mean
        ELSE IF Len(vs) # 0
        THEN (IF IsRaise(sd) THEN sd ELSE Dev(mean, 1, sd))
        ELSE NaN

Statistics ==
    {"smin", "smax", "smean", "smedian", "s25_ile", "s75_ile",
     "spvar", "ssdev", "slow_dev", "shi_dev"}

statistic(f, vs) ==
    CASE f = "smin" -> smin(vs)
      [] f = "smax" -> smax(vs)
      [] f = "smean" -> smean(vs)
      [] f = "smedian" -> smedian(vs)
      [] f = "s25_ile" -> s25_ile(vs)
      [] f = "s75_ile" -> s75_ile(vs)
      [] f = "spvar" -> spvar(vs)
      [] f = "ssdev" -> ssdev(vs)
      [] f = "slow_dev" -> slow_dev(vs)
      [] f = "shi_dev" -> shi_dev(vs)

(***************************************************************************)
(* The schemas: test_parameter_set.py, SamplePS and ChildPS.               *)
(***************************************************************************)
Classes == {"SamplePS", "ChildPS"}

\* dataclasses.fields(cls), in order: the parent's fields, then the new ones.
parameter_names(cls) ==
    IF cls = "SamplePS" THEN <<"paramA", "paramB", "paramC">>
    ELSE <<"paramA", "paramB", "paramC", "childParamA", "childParamB">>

pnames(cls) == Range(parameter_names(cls))

\* Mutant: the fields are looked up on the base schema, whatever cls is.
field_data_of_parent(cls) == pnames("SamplePS") \cup {"not_a_param"}

\* The keys of cls.__dataclass_fields__: every annotated name, the InitVar
\* pseudo-field not_a_param included.
field_data(cls) == pnames(cls) \cup {"not_a_param"}

\* The annotations that each class body declares, in order, as the
\* ps_dataclass decorator reads them.
Field(name, default, initvar) == [name |-> name, default |-> default, initvar |-> initvar]

own_annotations(cls) ==
    IF cls = "SamplePS"
    THEN << Field("not_a_param", Str("nap"), TRUE),
            Field("paramA", None, FALSE),
            Field("paramB", None, FALSE),
            Field("paramC", Num(3140000), FALSE) >>
    ELSE << Field("paramC", Num(3000000), FALSE),
            Field("childParamA", None, FALSE),
            Field("childParamB", Num(0), FALSE) >>

\* The dataclass bases of a class, nearest last; ParameterSet itself is no
\* dataclass and brings no field.
dataclass_bases(cls) == IF cls = "ChildPS" THEN <<"SamplePS">> ELSE << >>

\* fields[f.name] = f on an ordered dict: a known name keeps its place.
dict_set(fs, f) ==
    IF \E i \in DOMAIN fs : fs[i].name = f.name
    THEN [i \in DOMAIN fs |-> IF fs[i].name = f.name THEN f ELSE fs[i]]
    ELSE Append(fs, f)

RECURSIVE dict_update(_, _, _)
dict_update(fs, more, i) ==
    IF i > Len(more) THEN fs ELSE dict_update(dict_set(fs, more[i]), more, i + 1)

\* Mutant: the decorator collects the class's own annotations before those
\* of its bases.
dataclass_fields_own_first(cls) ==
    IF dataclass_bases(cls) = << >> THEN own_annotations(cls)
    ELSE dict_update(own_annotations(cls), own_annotations(dataclass_bases(cls)[1]), 1)

\* cls.__dataclass_fields__ as dataclasses.dataclass builds it: the fields of
\* the bases, then the class's own annotations written over them.
dataclass_fields(cls) ==
    IF dataclass_bases(cls) = << >> THEN own_annotations(cls)
    ELSE dict_update(own_annotations(dataclass_bases(cls)[1]), own_annotations(cls), 1)

\* dataclasses.fields(cls): the entries that are no InitVar pseudo-fields.
IsParameter(f) == ~f.initvar

dataclasses_fields(cls) == SelectSeq(dataclass_fields(cls), IsParameter)

FieldNames(fs) == [i \in DOMAIN fs |-> fs[i].name]

\* fielddata[name].metadata.get('pdtype')
pdtype(cls, name) == name = "paramB"

\* The class attribute that an instance without its own attribute reports;
\* for a field it is also fielddata[name].default.
class_default(cls, name) ==
    CASE name = "paramA" -> None
      [] name = "paramB" -> None
      [] name = "paramC" -> IF cls = "SamplePS" THEN Num(3140000) ELSE Num(3000000)
      [] name = "childParamA" -> None
      [] name = "childParamB" -> Num(0)
      [] name = "not_a_param" -> Str("nap")

(***************************************************************************)
(* pandas conversions between a DataFrame and its nested dict.             *)
(***************************************************************************)
\* df.to_dict(): {column: {row: cell}}
to_dict(df) ==
    Dict(df.cols, [c \in Range(df.cols) |-> Dict(df.idx, df.cell[c])])

\* pd.DataFrame.from_dict(raw): the columns are the outer keys and the rows
\* the inner keys (the tables of this model give every column the same row
\* keys); anything that is not a dict of dicts raises ValueError.
from_dict(raw) ==
    IF ~IsDict(raw) THEN [err |-> "ValueError", v |-> None]
    ELSE IF \E c \in Range(raw.keys) : ~IsDict(raw.items[c]) THEN [err |-> "ValueError", v |-> None]
    ELSE LET idx == IF raw.keys = << >> THEN << >> ELSE raw.items[raw.keys[1]].keys
         IN  [err |-> "",
              v |-> DataFrame(raw.keys, idx,
                       [c \in Range(raw.keys) |->
                          [r \in Range(idx) |->
                             IF r \in Range(raw.items[c].keys) THEN raw.items[c].items[r] ELSE NaN]])]

(***************************************************************************)
(* parameter_set.py: class ParameterSet.  An instance is a record of its   *)
(* class, its own attributes (attrs), _set, _meta and _locked.             *)
(***************************************************************************)
Put(f, key, v) == [x \in DOMAIN f \cup {key} |-> IF x = key THEN v ELSE f[x]]

\* The instance after the first two statements of __init__.
NewPS(cls) == [cls |-> cls, attrs |-> << >>, set |-> {}, meta |-> << >>, locked |-> FALSE]

islocked(ps) == ps.locked

\* getattr(self, name): the instance's own attribute, else the class's.
getattr(ps, name) ==
    IF name \in DOMAIN ps.attrs THEN ps.attrs[name] ELSE class_default(ps.cls, name)

\* hasattr(self, name): an own attribute, or an attribute of the class; the
\* class has one for every annotated name, since all of them have defaults.
hasattr(ps, name) == name \in DOMAIN ps.attrs \/ name \in field_data(ps.cls)

\* ps.name: the attribute if there is one, else AttributeError.
attribute(ps, name) ==
    IF hasattr(ps, name) THEN [err |-> "", v |-> getattr(ps, name)]
    ELSE [err |-> "noattr", v |-> None]

\* Mutant: __setattr__ without the lock check.
setattr_unguarded(ps, name, value) ==
    [err |-> "",
     ps |-> [ps EXCEPT !.attrs = Put(@, name, value),
                       !.set = IF name \in pnames(ps.cls) THEN @ \cup {name} ELSE @]]

\* Mutant: __setattr__ that stores the value and marks nothing as set.
setattr_unmarked(ps, name, value) ==
    IF islocked(ps) THEN [err |-> "locked", ps |-> ps]
    ELSE [err |-> "", ps |-> [ps EXCEPT !.attrs = Put(@, name, value)]]

\* Mutant: __setattr__ that marks every name it is given as set.
setattr_marks_any(ps, name, value) ==
    IF islocked(ps) THEN [err |-> "locked", ps |-> ps]
    ELSE [err |-> "", ps |-> [ps EXCEPT !.attrs = Put(@, name, value), !.set = @ \cup {name}]]

setattr(ps, name, value) ==
    IF islocked(ps) THEN [err |-> "locked", ps |-> ps]
    ELSE [err |-> "",
          ps |-> [ps EXCEPT !.attrs = Put(@, name, value),
                            !.set = IF name \in pnames(ps.cls) THEN @ \cup {name} ELSE @]]

\* Mutant: __getitem__ that asks whether the attribute exists, not whether
\* the key is a parameter.
getitem_hasattr(ps, key) ==
    IF ~hasattr(ps, key) THEN [err |-> "nosuch", v |-> None]
    ELSE [err |-> "", v |-> getattr(ps, key)]

getitem(ps, key) ==
    IF key \notin pnames(ps.cls) THEN [err |-> "nosuch", v |-> None]
    ELSE [err |-> "", v |-> getattr(ps, key)]

\* Mutant: __setitem__ that stores the value itself instead of calling
\* __setattr__.
setitem_direct(ps, key, value) ==
    IF key \notin pnames(ps.cls) THEN [err |-> "nosuch", ps |-> ps]
    ELSE [err |-> "", ps |-> [ps EXCEPT !.attrs = Put(@, key, value)]]

\* Mutant: __setitem__ that looks at the lock before it looks at the key.
setitem_lock_first(ps, key, value) ==
    IF islocked(ps) THEN [err |-> "locked", ps |-> ps]
    ELSE IF key \notin pnames(ps.cls) THEN [err |-> "nosuch", ps |-> ps]
    ELSE setattr(ps, key, value)

setitem(ps, key, value) ==
    IF key \notin pnames(ps.cls) THEN [err |-> "nosuch", ps |-> ps]
    ELSE setattr(ps, key, value)

meta(ps, parameter_name) ==
    IF parameter_name \notin pnames(ps.cls) THEN [err |-> "nosuch", v |-> None]
    ELSE [err |-> "",
          v |-> IF parameter_name \in DOMAIN ps.meta THEN ps.meta[parameter_name] ELSE None]

\* Mutant: set_meta without the lock check.
set_meta_unguarded(ps, parameter_name, newvalue) ==
    IF parameter_name \notin pnames(ps.cls) THEN [err |-> "nosuch", ps |-> ps]
    ELSE [err |-> "",
          ps |-> [ps EXCEPT !.meta = Put(@, parameter_name, newvalue),
                            !.set = @ \cup {parameter_name}]]

\* Mutant: set_meta that leaves _set as it is.
set_meta_only(ps, parameter_name, newvalue) ==
    IF islocked(ps) THEN [err |-> "locked", ps |-> ps]
    ELSE IF parameter_name \notin pnames(ps.cls) THEN [err |-> "nosuch", ps |-> ps]
    ELSE [err |-> "", ps |-> [ps EXCEPT !.meta = Put(@, parameter_name, newvalue)]]

set_meta(ps, parameter_name, newvalue) ==
    IF islocked(ps) THEN [err |-> "locked", ps |-> ps]
    ELSE IF parameter_name \notin pnames(ps.cls) THEN [err |-> "nosuch", ps |-> ps]
    ELSE [err |-> "",
          ps |-> [ps EXCEPT !.meta = Put(@, parameter_name, newvalue),
                            !.set = @ \cup {parameter_name}]]

\* lock() goes through __setattr__, which refuses on a locked instance.
lock(ps) ==
    IF islocked(ps) THEN [err |-> "locked", ps |-> ps]
    ELSE [err |-> "", ps |-> [ps EXCEPT !.locked = TRUE]]

\* Mutant: _initialize_value that hands every raw value on as it is.
initialize_value_raw(cls, param_name, raw_value) == [err |-> "", v |-> raw_value]

initialize_value(cls, param_name, raw_value) ==
    IF pdtype(cls, param_name) /\ raw_value # None THEN from_dict(raw_value)
    ELSE [err |-> "", v |-> raw_value]

HasValueMeta(v) == IsDict(v) /\ "meta" \in Range(v.keys) /\ "value" \in Range(v.keys)

\* The body of the loop of __init__ for the item i of param_data and the
\* items after it; r is the construction so far.
RECURSIVE init_items(_, _, _)
init_items(r, param_data, i) ==
    IF i > Len(param_data.keys) THEN r
    ELSE LET key == param_data.keys[i]
             v0 == param_data.items[key]
             cls == r.ps.cls
         IN  IF key \in field_data(cls)
             THEN LET split == HasValueMeta(v0)
                      ps1 == IF split THEN [r.ps EXCEPT !.meta = Put(@, key, v0.items["meta"])]
                             ELSE r.ps
                      v1 == IF split THEN v0.items["value"] ELSE v0
                      iv == initialize_value(cls, key, v1)
                      st == setitem(ps1, key, iv.v)
                  IN  IF iv.err # "" THEN [r EXCEPT !.err = iv.err]
                      ELSE IF st.err # "" THEN [r EXCEPT !.err = st.err]
                      ELSE init_items([r EXCEPT !.ps = [st.ps EXCEPT !.set = @ \cup {key}]],
                                      param_data, i + 1)
             ELSE init_items([r EXCEPT !.warned = TRUE], param_data, i + 1)

\* Mutant: a constructor that resets _meta after it has read the data.
PS_init_meta_reset(cls, param_data) ==
    LET r == init_items([err |-> "", warned |-> FALSE, ps |-> NewPS(cls)], param_data, 1)
    IN  [r EXCEPT !.ps.meta = << >>]

\* Mutant: a constructor for which an unknown key is an error.
PS_init_strict(cls, param_data) ==
    LET r == init_items([err |-> "", warned |-> FALSE, ps |-> NewPS(cls)], param_data, 1)
    IN  IF r.warned THEN [r EXCEPT !.err = "nosuch"] ELSE r

\* cls(param_data): err is "" and ps the new instance, or err names the
\* exception and there is no instance.  An empty mapping is falsy.
PS_init(cls, param_data) ==
    init_items([err |-> "", warned |-> FALSE, ps |-> NewPS(cls)], param_data, 1)

\* The entries of _to_yaml_form, one parameter after the other.
RECURSIVE yaml_items(_, _, _, _)
yaml_items(ps, compact, i, the_data) ==
    IF i > Len(parameter_names(ps.cls)) THEN the_data
    ELSE LET p == parameter_names(ps.cls)[i]
             v0 == getattr(ps, p)
             v1 == IF IsDataFrame(v0) THEN to_dict(v0) ELSE v0
             m == meta(ps, p).v
             v2 == IF m # None THEN ValueMeta(v1, m) ELSE v1
         IN  IF compact /\ p \notin ps.set
             THEN yaml_items(ps, compact, i + 1, the_data)
             ELSE yaml_items(ps, compact, i + 1,
                             Dict(Append(the_data.keys, p), Put(the_data.items, p, v2)))

\* Mutant: _to_yaml_form that, when compact, also keeps the parameters that
\* have metadata.
to_yaml_form_or_meta(ps, compact) ==
    LET with_meta == {p \in DOMAIN ps.meta \cap pnames(ps.cls) : ps.meta[p] # None}
    IN  yaml_items([ps EXCEPT !.set = @ \cup with_meta], compact, 1, EmptyDict)

\* Mutant: _to_yaml_form that emits every parameter, compact or not.
to_yaml_form_full(ps, compact) == yaml_items(ps, FALSE, 1, EmptyDict)

to_yaml_form(ps, compact) == yaml_items(ps, compact, 1, EmptyDict)

\* Mutant: a copy that carries the lock of the original.
copy_keeps_lock(ps) ==
    LET r == PS_init(ps.cls, yaml_items(ps, TRUE, 1, EmptyDict))
    IN  [r EXCEPT !.ps.locked = ps.locked]

\* copy() calls _to_yaml_form() with its default, compact=True.
copy(ps) == PS_init(ps.cls, to_yaml_form(ps, TRUE))

\* Mutant: the loop of merged_with without its call of set_meta.
merge_items_values_only(newps, other_ps, todo) ==
    LET ops == todo \cap pnames(other_ps.cls)
    IN  [newps EXCEPT !.attrs = [x \in DOMAIN @ \cup ops |->
                                    IF x \in ops THEN getitem(other_ps, x).v ELSE @[x]],
                      !.set = @ \cup ops]

\* The loop of merged_with over other_ps.set; todo is what is left of it.
RECURSIVE merge_items(_, _, _)
merge_items(newps, other_ps, todo) ==
    IF todo = {} THEN newps
    ELSE LET op == CHOOSE x \in todo : TRUE
             ps1 == IF op \in pnames(other_ps.cls)
                    THEN set_meta(setitem(newps, op, getitem(other_ps, op).v).ps,
                                  op, meta(other_ps, op).v).ps
                    ELSE newps
         IN  merge_items(ps1, other_ps, todo \ {op})

\* Mutant: merged_with that builds the result with the class of self.
merged_with_self_class(self, other_ps) ==
    LET r == PS_init(self.cls, yaml_items(self, TRUE, 1, EmptyDict))
    IN  IF r.err # "" THEN r
        ELSE [r EXCEPT !.ps = merge_items(r.ps, other_ps, other_ps.set)]

\* Mutant: merged_with that starts from the full serialization of self.
merged_with_full(self, other_ps) ==
    LET r == PS_init(other_ps.cls, yaml_items(self, FALSE, 1, EmptyDict))
    IN  IF r.err # "" THEN r
        ELSE [r EXCEPT !.ps = merge_items(r.ps, other_ps, other_ps.set)]

merged_with(self, other_ps) ==
    LET r == PS_init(other_ps.cls, to_yaml_form(self, TRUE))
    IN  IF r.err # "" THEN r
        ELSE [r EXCEPT !.ps = merge_items(r.ps, other_ps, other_ps.set)]

\* Mutant: the loop of delta_from that reads the base and leaves _set alone.
delta_items_unchanged(r, base_ps, i) ==
    IF \E p \in pnames(r.ps.cls) : getitem(base_ps, p).err # ""
    THEN [r EXCEPT !.err = "nosuch"]
    ELSE r

\* The loop of delta_from for the parameter i and those after it.
RECURSIVE delta_items(_, _, _)
delta_items(r, base_ps, i) ==
    IF i > Len(parameter_names(r.ps.cls)) THEN r
    ELSE LET p == parameter_names(r.ps.cls)[i]
             base_value == getitem(base_ps, p)
             new_value == getitem(r.ps, p).v
         IN  IF base_value.err # "" THEN [r EXCEPT !.err = base_value.err]
             ELSE IF value_eq(base_value.v, new_value, TRUE)
             THEN delta_items([r EXCEPT !.ps.set = @ \ {p}], base_ps, i + 1)
             ELSE IF value_eq(new_value, class_default(r.ps.cls, p), TRUE)
             THEN delta_items([r EXCEPT !.ps.set = @ \cup {p}], base_ps, i + 1)
             ELSE delta_items(r, base_ps, i + 1)

delta_from(self, base_ps) ==
    LET r == copy(self)
    IN  IF r.err # "" THEN r ELSE delta_items(r, base_ps, 1)

(***************************************************************************)
(* scenario.py and solution.py.  Objects are passed by reference: a        *)
(* parameter set by its place in the heap, the Solution as itself (it has  *)
(* no attribute lock).  The instances of the heap stand for the            *)
(* ScenarioParams that load_scenario is given: locking is inherited from   *)
(* ParameterSet and does not depend on the schema.                         *)
(***************************************************************************)
PSRef(i) == [k |-> "ps", at |-> i]

SolutionRef == [k |-> "solution"]

\* Scenario.__init__(self, params, solution): self._params = params, then
\* self._params.lock(); h is the heap before the call.
Scenario_init(h, params, solution) ==
    IF params.k = "ps"
    THEN LET r == lock(h[params.at])
         IN  [err |-> r.err,
              heap |-> [h EXCEPT ![params.at] = r.ps],
              scenario |-> IF r.err = "" THEN [k |-> "scenario", params |-> params] ELSE None]
    ELSE [err |-> "noattr", heap |-> h, scenario |-> None]

\* Solution.load_scenario(self, scenario_def) for a scenario_def that is a
\* parameter set: self._scenario_class(self, scenario_def).
load_scenario(h, self, scenario_def) == Scenario_init(h, self, scenario_def)

(***************************************************************************)
(* Inputs.  The documents are those of test_parameter_set.py, cut down to  *)
(* one or two keys each; the tables are its "World" table and the table    *)
(* with the added "EU" column.  Tables are given to the tabular field      *)
(* only, since value_eq is defined for numbers, strings and DataFrames.    *)
(***************************************************************************)
Years == <<1990, 1991, 1993>>

WorldCells == [r \in Range(Years) |-> IF r = 1990 THEN Num(2000000) ELSE IF r = 1991 THEN Num(3000000) ELSE Num(4000000)]
EUCells == [r \in Range(Years) |-> IF r = 1993 THEN Num(2000000) ELSE Num(1000000)]

\* { "World": {1990: 2, 1991: 3, 1993: 4} }
RawWorld == Dict(<<"World">>, [c \in {"World"} |-> Dict(Years, WorldCells)])

\* { "World": {...}, "EU": {1990: 1, 1991: 1, 1993: 2} }
RawWorldEU ==
    Dict(<<"World", "EU">>,
         [c \in {"World", "EU"} |-> Dict(Years, IF c = "World" THEN WorldCells ELSE EUCells)])

DFWorldEU == from_dict(RawWorldEU).v

Doc1(k1, v1) == Dict(<<k1>>, [x \in {k1} |-> v1])
Doc2(k1, v1, k2, v2) == Dict(<<k1, k2>>, [x \in {k1, k2} |-> IF x = k1 THEN v1 ELSE v2])

Documents ==
    { EmptyDict,
      Doc2("paramA", Num(20000000), "paramB", RawWorld),
      Doc2("paramA", Num(40000000), "paramB", ValueMeta(RawWorld, Str("I have metadata"))),
      Doc1("paramA", None),
      Doc1("paramA", Str("This is a string value")),
      Doc1("paramB", Num(10000000)),
      Doc2("noSuchParam", Num(1000000), "paramA", Num(20000000)),
      Doc1("not_a_param", Str("x")),
      Doc2("paramA", Num(22000000), "childParamA", Str("another string")) }

\* The names that the calls of the tests use, parameters or not.
Names == {"paramA", "paramB", "paramC", "childParamA", "childParamB", "not_a_param", "noSuchParam"}

\* What set and set_meta are called with.
ItemAssignments ==
    { <<"paramA", Num(15000000)>>,
      <<"paramB", DFWorldEU>>,
      <<"paramB", Num(10000000)>>,
      <<"childParamB", Num(0)>>,
      <<"noSuchParam", Num(1000000)>> }

AttrAssignments ==
    { <<"paramC", Num(3000000)>>,
      <<"childParamA", Str("This is a new value")>>,
      <<"not_a_param", Str("x")>> }

MetaAssignments ==
    { <<"paramA", Str("m")>>,
      <<"paramC", None>>,
      <<"noSuchParam", Str("m")>> }

(***************************************************************************)
(* The state: heap holds the instances, origin the call that made each, *)
(* last the outcome of the latest call.                                    *)
(***************************************************************************)
Slots == 1 .. MaxInst

\* pc holds the position of every thread; the calls of Spec and SpecPure are
\* made by the one main thread, one whole call at a time.
NoThreads == << >>

NoPS == [cls |-> "none"]

Live == {i \in Slots : heap[i] # NoPS}

Free == Slots \ Live

NextFree == CHOOSE i \in Free : \A j \in Free : i <= j

Call(op, self, other, name, arg) ==
    [op |-> op, self |-> self, other |-> other, name |-> name, arg |-> arg]

\* How an instance came to be: the call, without its arguments' values.
Origin(call) == [op |-> call.op, self |-> call.self, other |-> call.other]

Outcome(call, res, err, warned) ==
    [op |-> call.op, self |-> call.self, other |-> call.other, name |-> call.name,
     arg |-> call.arg, res |-> res, err |-> err, warned |-> warned]

\* Mutant: a call that works on self instead of on a new instance.
Returns_into_self(call, r) ==
    LET target == IF call.self \in Live THEN call.self ELSE NextFree
    IN  /\ nops < MaxOps
        /\ Free # {}
        /\ nops' = nops + 1
        /\ IF r.err = ""
           THEN /\ heap' = [heap EXCEPT ![target] = r.ps]
                /\ origin' = [origin EXCEPT ![target] = Origin(call)]
                /\ last' = Outcome(call, target, "", r.warned)
           ELSE /\ UNCHANGED <<heap, origin>>
                /\ last' = Outcome(call, 0, r.err, r.warned)
        /\ UNCHANGED pc

\* A call that returns a new instance, or raises.
Returns(call, r) ==
    /\ nops < MaxOps
    /\ Free # {}
    /\ nops' = nops + 1
    /\ IF r.err = ""
       THEN /\ heap' = [heap EXCEPT ![NextFree] = r.ps]
            /\ origin' = [origin EXCEPT ![NextFree] = Origin(call)]
            /\ last' = Outcome(call, NextFree, "", r.warned)
       ELSE /\ UNCHANGED <<heap, origin>>
            /\ last' = Outcome(call, 0, r.err, r.warned)
    /\ UNCHANGED pc

\* A call that changes its instance in place, or raises.
Mutates(call, r) ==
    /\ nops < MaxOps
    /\ nops' = nops + 1
    /\ heap' = [heap EXCEPT ![call.self] = r.ps]
    /\ UNCHANGED <<origin, pc>>
    /\ last' = Outcome(call, 0, r.err, FALSE)

Construct(cls, data) ==
    Returns(Call("construct", 0, 0, cls, data), PS_init(cls, data))

SetItem(i, key, value) ==
    Mutates(Call("setitem", i, 0, key, value), setitem(heap[i], key, value))

SetAttr(i, name, value) ==
    Mutates(Call("setattr", i, 0, name, value), setattr(heap[i], name, value))

SetMeta(i, name, newvalue) ==
    Mutates(Call("set_meta", i, 0, name, newvalue), set_meta(heap[i], name, newvalue))

Lock(i) ==
    Mutates(Call("lock", i, 0, "", None), lock(heap[i]))

Copy(i) ==
    Returns(Call("copy", i, 0, "", None), copy(heap[i]))

MergedWith(i, j) ==
    Returns(Call("merged_with", i, j, "", None), merged_with(heap[i], heap[j]))

DeltaFrom(i, j) ==
    Returns(Call("delta_from", i, j, "", None), delta_from(heap[i], heap[j]))

\* soln.load_scenario(ps) for the instance ps at i.
LoadScenario(i) ==
    LET r == load_scenario(heap, SolutionRef, PSRef(i))
    IN  /\ nops < MaxOps
        /\ nops' = nops + 1
        /\ heap' = r.heap
        /\ UNCHANGED <<origin, pc>>
        /\ last' = [Outcome(Call("load_scenario", i, 0, "", None), 0, r.err, FALSE)
                       EXCEPT !.res = r.scenario]

Init ==
    \E cls \in Classes, data \in Documents :
        LET r == PS_init(cls, data)
            call == Call("construct", 0, 0, cls, data)
        IN  /\ r.err = ""
            /\ heap = [i \in Slots |-> IF i = 1 THEN r.ps ELSE NoPS]
            /\ origin = [i \in Slots |-> Origin(call)]
            /\ last = Outcome(call, 1, "", r.warned)
            /\ nops = 0
            /\ pc = NoThreads

Next ==
    \/ \E cls \in Classes, data \in Documents : Construct(cls, data)
    \/ \E i \in Live, a \in ItemAssignments : SetItem(i, a[1], a[2])
    \/ \E i \in Live, a \in AttrAssignments : SetAttr(i, a[1], a[2])
    \/ \E i \in Live, a \in MetaAssignments : SetMeta(i, a[1], a[2])
    \/ \E i \in Live : Lock(i)
    \/ \E i \in Live : Copy(i)
    \/ \E i \in Live, j \in Live : MergedWith(i, j)
    \/ \E i \in Live, j \in Live : DeltaFrom(i, j)
    \/ \E i \in Live : LoadScenario(i)

Spec == Init /\ [][Next]_vars

(***************************************************************************)
(* The functions that depend on no instance (the class method              *)
(* parameter_names and the functions of values.py) are called on their own *)
(* in a second specification: last holds the call with its arguments and   *)
(* its result, and there are no instances.  No call depends on an earlier  *)
(* one, so a behaviour makes one call.                                     *)
(***************************************************************************)
ParameterNames(cls) ==
    /\ last.op = "none"
    /\ last' = [op |-> "parameter_names", cls |-> cls, res |-> parameter_names(cls)]
    /\ UNCHANGED <<heap, origin, nops, pc>>

\* The scalars that value_eq is called with: those of test_value_eq (none,
\* '', ' ', 0, 1, NaN, 2.0, 2.000001) and their neighbours at the threshold.
Scalars ==
    { None, NaN, Str(""), Str(" "), Str("a"),
      Num(0), Num(1), Num(0 - 1), Num(2), Num(1000000),
      Num(2000000), Num(2000001), Num(2000003) }

\* The tables of test_df_value_eq: sample_df1, sample_df2, sample_df1 with
\* other column labels and with other row keys; and sample_df1 with its
\* columns or its rows in another order, and with other empty cells.
Table(cols, idx, a, b) ==
    DataFrame(cols, idx,
              [c \in Range(cols) |->
                  [r \in Range(idx) |-> IF c = cols[1] THEN a[r + 1] ELSE b[r + 1]]])

ColA == <<Num(20000000), Num(30000000), Num(40000000)>>
ColB == <<Num(0), Str(""), None>>

sample_df1 == Table(<<"A", "B">>, <<0, 1, 2>>, ColA, ColB)
sample_df2 == Table(<<"A", "B">>, <<0, 1, 2>>, ColA, <<Num(1000000), Num(2000000), Num(3000000)>>)

Tables ==
    { sample_df1,
      sample_df2,
      Table(<<"C", "D">>, <<0, 1, 2>>, ColA, ColB),
      [sample_df1 EXCEPT !.idx = <<0, 2, 1>>],
      [sample_df1 EXCEPT !.cols = <<"B", "A">>],
      Table(<<"A", "B">>, <<0, 1>>, ColA, ColB),
      Table(<<"A", "B">>, <<0, 1, 2>>, ColA, <<None, NaN, Num(0)>>) }

Operands == Scalars \cup Tables

ValueEq(x1, x2, az) ==
    /\ last.op = "none"
    /\ last' = [op |-> "value_eq", v1 |-> x1, v2 |-> x2, all_zero |-> az,
                res |-> value_eq(x1, x2, az)]
    /\ UNCHANGED <<heap, origin, nops, pc>>

\* Estimates: the entries of sample_df1 (20, 30, 40; 0, '', None) and NaN,
\* in lists of up to MaxSamples entries.
MaxSamples == 3

Estimates == { None, Str(""), NaN, Num(0), Num(20), Num(30), Num(40) }

SampleLists == UNION { [1..n -> Estimates] : n \in 0..MaxSamples }

Statistic(f, samples) ==
    /\ last.op = "none"
    /\ last' = [op |-> "statistic", f |-> f, vs |-> samples, res |-> statistic(f, samples)]
    /\ UNCHANGED <<heap, origin, nops, pc>>

InitPure ==
    /\ heap = [i \in Slots |-> NoPS]
    /\ origin = [i \in Slots |-> [op |-> "none"]]
    /\ last = [op |-> "none"]
    /\ nops = 0
    /\ pc = NoThreads

NextPure ==
    \/ \E cls \in Classes : ParameterNames(cls)
    \/ \E x1 \in Operands, x2 \in Operands, az \in BOOLEAN : ValueEq(x1, x2, az)
    \/ \E f \in Statistics, samples \in SampleLists : Statistic(f, samples)

SpecPure == InitPure /\ [][NextPure]_vars

(***************************************************************************)
(* Threads.  In a third specification two threads call set, set_meta or    *)
(* lock() on the one instance at heap[1], with nothing to serialize them.  *)
(* A thread can be suspended between any two statements of a method, so    *)
(* each statement is a step: the test of the name in __setitem__; the test *)
(* of the lock, the store and the marking in __setattr__; the tests, the   *)
(* store and the marking in set_meta.  pc[t] holds the call of thread t,   *)
(* where it stands in it, and the error it raised; last holds the latest   *)
(* step and whether the instance was locked when it was taken.             *)
(***************************************************************************)
Threads == {"t1", "t2"}

Shared == 1

\* ps.lock() is setattr(self, '_locked', True).
LockCall == [op |-> "lock", name |-> "_locked", arg |-> TRUE]

ThreadCalls ==
    {[op |-> "setitem", name |-> a[1], arg |-> a[2]] : a \in ItemAssignments}
    \cup {[op |-> "setattr", name |-> a[1], arg |-> a[2]] : a \in AttrAssignments}
    \cup {[op |-> "set_meta", name |-> a[1], arg |-> a[2]] : a \in MetaAssignments}
    \cup {LockCall}

At(t, where, err) == [pc EXCEPT ![t].at = where, ![t].err = err]

Step(t, where) ==
    [op |-> "step", thread |-> t, at |-> where, call |-> pc[t].op,
     locked |-> heap[Shared].locked]

\* Mutant: object.__setattr__ that stores nothing on a locked instance.
object_setattr_if_unlocked(ps, name, value) ==
    IF ps.locked THEN ps
    ELSE IF name = "_locked" THEN [ps EXCEPT !.locked = value]
    ELSE [ps EXCEPT !.attrs = Put(@, name, value)]

\* object.__setattr__(self, name, value).
object_setattr(ps, name, value) ==
    IF name = "_locked" THEN [ps EXCEPT !.locked = value]
    ELSE [ps EXCEPT !.attrs = Put(@, name, value)]

\* if name in self.parameter_names(): self._set.add(name)
mark_set(ps, name) ==
    IF name \in pnames(ps.cls) THEN [ps EXCEPT !.set = @ \cup {name}] ELSE ps

\* self._meta[parameter_name] = newvalue
store_meta(ps, parameter_name, newvalue) ==
    [ps EXCEPT !.meta = Put(@, parameter_name, newvalue)]

\* A thread enters its call.
Begin(t, call) ==
    /\ pc[t].at = "idle"
    /\ pc' = [pc EXCEPT ![t] = [at |-> CASE call.op = "setitem" -> "name"
                                        [] call.op = "set_meta" -> "meta_check"
                                        [] OTHER -> "check",
                                op |-> call.op, name |-> call.name, arg |-> call.arg,
                                err |-> ""]]
    /\ nops' = nops + 1
    /\ last' = [op |-> "step", thread |-> t, at |-> "begin", call |-> call.op,
                locked |-> heap[Shared].locked]
    /\ UNCHANGED <<heap, origin>>

\* __setitem__: if key not in self.parameter_names(): raise.
NameCheck(t) ==
    /\ pc[t].at = "name"
    /\ pc' = IF pc[t].name \notin pnames(heap[Shared].cls)
             THEN At(t, "done", "nosuch") ELSE At(t, "check", "")
    /\ last' = Step(t, "name")
    /\ UNCHANGED <<heap, origin, nops>>

\* __setattr__: if self.islocked(): raise.
Check(t) ==
    /\ pc[t].at = "check"
    /\ pc' = IF islocked(heap[Shared]) THEN At(t, "done", "locked") ELSE At(t, "store", "")
    /\ last' = Step(t, "check")
    /\ UNCHANGED <<heap, origin, nops>>

\* __setattr__: object.__setattr__(self, name, value).
Store(t) ==
    /\ pc[t].at = "store"
    /\ heap' = [heap EXCEPT ![Shared] = object_setattr(@, pc[t].name, pc[t].arg)]
    /\ pc' = At(t, "mark", "")
    /\ last' = Step(t, "store")
    /\ UNCHANGED <<origin, nops>>

\* __setattr__: the marking of a parameter as set.
Mark(t) ==
    /\ pc[t].at = "mark"
    /\ heap' = [heap EXCEPT ![Shared] = mark_set(@, pc[t].name)]
    /\ pc' = At(t, "done", "")
    /\ last' = Step(t, "mark")
    /\ UNCHANGED <<origin, nops>>

\* set_meta: if self.islocked(): raise; elif the name is unknown: raise.
MetaCheck(t) ==
    /\ pc[t].at = "meta_check"
    /\ pc' = IF islocked(heap[Shared]) THEN At(t, "done", "locked")
             ELSE IF pc[t].name \notin pnames(heap[Shared].cls) THEN At(t, "done", "nosuch")
             ELSE At(t, "meta_store", "")
    /\ last' = Step(t, "meta_check")
    /\ UNCHANGED <<heap, origin, nops>>

\* set_meta: self._meta[parameter_name] = newvalue.
MetaStore(t) ==
    /\ pc[t].at = "meta_store"
    /\ heap' = [heap EXCEPT ![Shared] = store_meta(@, pc[t].name, pc[t].arg)]
    /\ pc' = At(t, "meta_mark", "")
    /\ last' = Step(t, "meta_store")
    /\ UNCHANGED <<origin, nops>>

\* set_meta: self._set.add(parameter_name).
MetaMark(t) ==
    /\ pc[t].at = "meta_mark"
    /\ heap' = [heap EXCEPT ![Shared] = [@ EXCEPT !.set = @ \cup {pc[t].name}]]
    /\ pc' = At(t, "done", "")
    /\ last' = Step(t, "meta_mark")
    /\ UNCHANGED <<origin, nops>>

\* The instance is constructed before the threads start.
InitThreads ==
    /\ \E cls \in Classes, data \in Documents :
          LET r == PS_init(cls, data)
          IN  /\ r.err = ""
              /\ heap = [i \in Slots |-> IF i = Shared THEN r.ps ELSE NoPS]
              /\ origin = [i \in Slots |-> Origin(Call("construct", 0, 0, cls, data))]
    /\ last = [op |-> "none"]
    /\ nops = 0
    /\ pc = [t \in Threads |-> [at |-> "idle", op |-> "", name |-> "", arg |-> None, err |-> ""]]

NextThreads ==
    \/ \E t \in Threads, call \in ThreadCalls : Begin(t, call)
    \/ \E t \in Threads : NameCheck(t)
    \/ \E t \in Threads : Check(t)
    \/ \E t \in Threads : Store(t)
    \/ \E t \in Threads : Mark(t)
    \/ \E t \in Threads : MetaCheck(t)
    \/ \E t \in Threads : MetaStore(t)
    \/ \E t \in Threads : MetaMark(t)

SpecThreads == InitThreads /\ [][NextThreads]_vars

(***************************************************************************)
(* Layers.  Two merges in a row need more calls and more instances than    *)
(* Spec has room for, so a fourth specification starts with three          *)
(* instances of one schema, each constructed from a document and then      *)
(* changed by at most one call (a set of paramB or paramC, a set_meta, a   *)
(* lock() or a delta from itself), and merges them in both groupings in    *)
(* one step; last holds the two results.                                   *)
(***************************************************************************)
Preparations ==
    {[op |-> "none", name |-> "", arg |-> None], [op |-> "lock", name |-> "", arg |-> None],
     [op |-> "delta_from", name |-> "", arg |-> None]}
    \cup {[op |-> "setitem", name |-> a[1], arg |-> a[2]] :
             a \in {x \in ItemAssignments : x[1] = "paramB"}}
    \cup {[op |-> "setattr", name |-> a[1], arg |-> a[2]] :
             a \in {x \in AttrAssignments : x[1] = "paramC"}}
    \cup {[op |-> "set_meta", name |-> a[1], arg |-> a[2]] :
             a \in {x \in MetaAssignments : x[1] \in pnames("SamplePS")}}

\* The instance after the call; a call that raises leaves it as it was.
Prepared(ps, prep) ==
    CASE prep.op = "setitem" -> setitem(ps, prep.name, prep.arg).ps
      [] prep.op = "setattr" -> setattr(ps, prep.name, prep.arg).ps
      [] prep.op = "set_meta" -> set_meta(ps, prep.name, prep.arg).ps
      [] prep.op = "lock" -> lock(ps).ps
      [] prep.op = "delta_from" ->
            (LET d == delta_from(ps, ps) IN IF d.err = "" THEN d.ps ELSE ps)
      [] OTHER -> ps

Instances(cls) ==
    {Prepared(PS_init(cls, data).ps, prep) :
        data \in {d \in Documents : PS_init(cls, d).err = ""}, prep \in Preparations}

\* a.merged_with(b).merged_with(c)
merged_left(a, b, c) ==
    LET ab == merged_with(a, b)
    IN  IF ab.err = "" THEN merged_with(ab.ps, c) ELSE ab

\* a.merged_with(b.merged_with(c))
merged_right(a, b, c) ==
    LET bc == merged_with(b, c)
    IN  IF bc.err = "" THEN merged_with(a, bc.ps) ELSE bc

Layers ==
    /\ last.op = "none"
    /\ last' = [op |-> "layers",
                left |-> merged_left(heap[1], heap[2], heap[3]),
                right |-> merged_right(heap[1], heap[2], heap[3])]
    /\ UNCHANGED <<heap, origin, nops, pc>>

InitLayers ==
    /\ \E cls \in Classes :
          \E a \in Instances(cls), b \in Instances(cls), c \in Instances(cls) :
              heap = [i \in Slots |-> IF i = 1 THEN a ELSE IF i = 2 THEN b
                                      ELSE IF i = 3 THEN c ELSE NoPS]
    /\ origin = [i \in Slots |-> [op |-> "construct", self |-> 0, other |-> 0]]
    /\ last = [op |-> "none"]
    /\ nops = 0
    /\ pc = NoThreads

NextLayers == Layers

SpecLayers == InitLayers /\ [][NextLayers]_vars

(***************************************************************************)
(* Properties.                                                             *)
(***************************************************************************)
Keys(d) == Range(d.keys)

\* The instance fields a caller can observe through get and meta.
SameValues(ps1, ps2, fields) == \A f \in fields : getattr(ps1, f) = getattr(ps2, f)
SameMeta(ps1, ps2, fields) == \A f \in fields : meta(ps1, f).v = meta(ps2, f).v

Mutators == {"setitem", "setattr", "set_meta"}

\* C1 (merge/delta inverse law): for every two instances base and ps, if
\* ps.delta_from(base) and the merge of it onto base both return, the merge
\* has on every field of ps's schema a value that is value_eq to ps's.
C1_MergeDeltaInverse ==
    \A b \in Live, p \in Live :
        LET d == delta_from(heap[p], heap[b])
            m == merged_with(heap[b], d.ps)
        IN  (d.err = "" /\ m.err = "") =>
                \A f \in pnames(heap[p].cls) :
                    value_eq(getattr(m.ps, f), getattr(heap[p], f), TRUE)

\* C2 (lock finality): a bracket-style assignment of a parameter, an
\* attribute-style assignment and a set_meta call on a locked instance all
\* raise the locked error and leave every instance as it was.
C2_LockFinality ==
    [][(/\ last'.op \in Mutators
        /\ heap[last'.self].locked
        /\ (last'.op = "setitem" => last'.name \in pnames(heap[last'.self].cls)))
       => (last'.err = "locked" /\ heap' = heap)]_vars

C2_Witness ==
    /\ last.op = "setitem"
    /\ last.name \in pnames(heap[last.self].cls)
    /\ last.err = "locked"
    /\ heap[last.self].locked

\* C3 (frozen snapshot): a locked instance never changes again, whatever is
\* called on it or with it: its values, metadata, explicit set and locked
\* flag stay as they are.
C3_FrozenSnapshot ==
    [][\A i \in Live : heap[i].locked => heap'[i] = heap[i]]_vars

C3_Witness ==
    /\ last.op \in {"merged_with", "delta_from"}
    /\ last.err = ""
    /\ heap[last.self].locked
    /\ heap[last.other].locked
    /\ heap[last.self].set # {}

\* C4 (copy of a locked instance): the copy is another instance and is
\* unlocked; a set or set_meta of a parameter on an unlocked copy of a
\* locked instance succeeds, and changes no instance but the copy.
CopyOfLocked(i) ==
    /\ origin[i].op = "copy"
    /\ heap[origin[i].self].locked

C4_CopyOfLocked ==
    [][/\ (last'.op = "copy" /\ last'.err = "" /\ heap[last'.self].locked)
          => (last'.res # last'.self /\ ~heap'[last'.res].locked)
       /\ (/\ last'.op \in Mutators
           /\ CopyOfLocked(last'.self)
           /\ ~heap[last'.self].locked
           /\ last'.name \in pnames(heap[last'.self].cls))
          => (/\ last'.err = ""
              /\ IF last'.op = "set_meta"
                 THEN meta(heap'[last'.self], last'.name).v = last'.arg
                 ELSE getattr(heap'[last'.self], last'.name) = last'.arg
              /\ \A j \in Slots \ {last'.self} : heap'[j] = heap[j])]_vars

C4_Witness ==
    /\ last.op \in {"setitem", "set_meta"}
    /\ last.err = ""
    /\ CopyOfLocked(last.self)
    /\ ~heap[last.self].locked
    /\ heap[last.self] # heap[origin[last.self].self]

\* C5 (copy is a full snapshot): after ps.copy() returns, the copy reports
\* for every schema field the value and the metadata that ps reports.
C5_CopyFullSnapshot ==
    (last.op = "copy" /\ last.err = "") =>
        /\ SameValues(heap[last.res], heap[last.self], pnames(heap[last.self].cls))
        /\ SameMeta(heap[last.res], heap[last.self], pnames(heap[last.self].cls))

\* C6 (delta compactness): after ps.delta_from(ps) returns, the delta has an
\* empty explicit set and its compact serialization is the empty mapping.
C6_DeltaCompactness ==
    (last.op = "delta_from" /\ last.self = last.other /\ last.err = "") =>
        /\ heap[last.res].set = {}
        /\ to_yaml_form(heap[last.res], TRUE) = EmptyDict

ValuePart(raw) ==
    IF IsDict(raw) /\ {"value", "meta"} \subseteq Keys(raw) THEN raw.items["value"] ELSE raw

Exported(v) == IF IsDataFrame(v) THEN to_dict(v) ELSE v

C9_WitnessEmpty ==
    /\ last.op = "construct"
    /\ last.arg = EmptyDict
    /\ heap[last.res].set = {}

\* C10 (unknown key isolation): a construction from data with a key that is
\* not a schema field, and whose tabular entries are tables, warns, returns
\* an instance, gives it the schema fields of the data, and leaves no trace
\* of the key in the instance.
TablesWellFormed(cls, data) ==
    \A f \in Keys(data) \cap pnames(cls) :
        pdtype(cls, f) => (ValuePart(data.items[f]) = None \/ IsDict(ValuePart(data.items[f])))

C10_UnknownKeyIsolation ==
    (/\ last.op = "construct"
     /\ Keys(last.arg) \ pnames(last.name) # {}
     /\ TablesWellFormed(last.name, last.arg)) =>
        /\ last.warned
        /\ last.err = ""
        /\ LET ps == heap[last.res]
           IN  /\ ps.set = Keys(last.arg) \cap pnames(last.name)
               /\ DOMAIN ps.attrs \subseteq pnames(last.name)
               /\ DOMAIN ps.meta \subseteq pnames(last.name)
               /\ \A key \in Keys(last.arg) \ pnames(last.name) :
                      getitem(ps, key).err = "nosuch"

\* C11 (un-tableable value): a construction from data that gives a tabular
\* field a scalar raises ValueError and makes no instance, while a
\* construction that returns has stored, for every non-tabular field of the
\* data, the supplied value as it is, whatever its type.  (Data with the key
\* of an init-only pseudo-field is the case of C10 and is left out here.)
Untableable(raw) == raw.k \in {"num", "str", "nan"}

C11_TabularReconstruction ==
    [][(last'.op = "construct" /\ "not_a_param" \notin Keys(last'.arg)) =>
        LET cls == last'.name
            data == last'.arg
            given == Keys(data) \cap pnames(cls)
        IN  /\ (\E f \in given : pdtype(cls, f) /\ Untableable(ValuePart(data.items[f])))
                  => (last'.err = "ValueError" /\ last'.res = 0 /\ heap' = heap)
            /\ last'.err = "" =>
                  \A f \in given :
                      ~pdtype(cls, f) => getattr(heap'[last'.res], f) = ValuePart(data.items[f])]_vars

\* A construction with a scalar for the tabular field has just failed, and
\* an earlier one has stored a string in the integer field paramA.
C11_Witness ==
    /\ last.op = "construct"
    /\ last.err = "ValueError"
    /\ last.res = 0
    /\ nops > 0
    /\ \E i \in Live : origin[i].op = "construct" /\ IsStr(getattr(heap[i], "paramA"))

\* C12 (unknown names): in every reachable state, for every instance and
\* every name that is not a field of its schema, get(name) and meta(name)
\* raise the unknown-parameter error; they return no value.
C12_UnknownNameFails ==
    \A i \in Live : \A n \in Names \ pnames(heap[i].cls) :
        /\ getitem(heap[i], n).err = "nosuch"
        /\ meta(heap[i], n).err = "nosuch"

\* An instance holds an attribute under a name outside its schema, and a
\* delta_from has just stopped at get's unknown-parameter error.
C12_Witness ==
    /\ last.op = "delta_from"
    /\ last.err = "nosuch"
    /\ \E i \in Live : DOMAIN heap[i].attrs \ pnames(heap[i].cls) # {}

\* C13 (results of merge and delta): when self.merged_with(other) returns,
\* the result is an instance that did not exist before, of other's schema;
\* when self.delta_from(base) returns, the result is an instance that did
\* not exist before, of self's schema; either result is unlocked, whether or
\* not the operands are locked, and the operands are as they were.
C13_NewUnlockedResult ==
    [][(last'.op \in {"merged_with", "delta_from"} /\ last'.err = "") =>
        /\ last'.res \notin Live
        /\ heap'[last'.res].cls =
               IF last'.op = "merged_with" THEN heap[last'.other].cls ELSE heap[last'.self].cls
        /\ ~heap'[last'.res].locked
        /\ \A j \in Live : heap'[j] = heap[j]]_vars

\* A merge across the two schemas, with a locked operand, has returned.
C13_Witness ==
    /\ last.op = "merged_with"
    /\ last.err = ""
    /\ heap[last.self].cls # heap[last.other].cls
    /\ heap[last.self].locked \/ heap[last.other].locked
    /\ heap[last.res].cls = heap[last.other].cls
    /\ ~heap[last.res].locked

\* A delta of a locked instance from a locked base has returned.
C13_WitnessDelta ==
    /\ last.op = "delta_from"
    /\ last.err = ""
    /\ heap[last.self].locked
    /\ heap[last.other].locked
    /\ ~heap[last.res].locked

C14_WitnessKept ==
    /\ last.op = "merged_with"
    /\ last.err = ""
    /\ \E f \in heap[last.self].set \ heap[last.other].set :
           meta(heap[last.res], f).v = meta(heap[last.self], f).v /\ meta(heap[last.res], f).v # None
    /\ \E f \in heap[last.other].set :
           meta(heap[last.res], f).v = meta(heap[last.other], f).v /\ meta(heap[last.res], f).v # None

Dropped(self, other) == pnames(self.cls) \ pnames(other.cls)

Tableable(self, other) ==
    \A f \in self.set \cap pnames(other.cls) :
        pdtype(other.cls, f) => ~Untableable(getattr(self, f))

NoTrace(res, f) ==
    /\ f \notin DOMAIN res.attrs
    /\ f \notin DOMAIN res.meta
    /\ f \notin res.set
    /\ ~hasattr(res, f)
    /\ getitem(res, f).err = "nosuch"

OtherOnlyFields(self, other, res) ==
    \A f \in pnames(other.cls) \ pnames(self.cls) :
        getitem(res, f).v = IF f \in other.set THEN getitem(other, f).v
                            ELSE class_default(other.cls, f)

C16_WitnessSilent ==
    /\ last.op = "merged_with"
    /\ last.err = ""
    /\ ~last.warned
    /\ Dropped(heap[last.self], heap[last.other]) # {}
    /\ heap[last.self].set # {}

\* A merge has given a field that only other's schema has other's value.
C16_WitnessOtherOnly ==
    /\ last.op = "merged_with"
    /\ last.err = ""
    /\ \E f \in heap[last.other].set \ pnames(heap[last.self].cls) :
           getitem(heap[last.res], f).v # class_default(heap[last.other].cls, f)

BuiltFromEmpty(base, cls) == [base EXCEPT !.locked = FALSE] = NewPS(cls)

\* The explicitly set fields of ps whose value value_eq takes for the default.
SetToDefault(ps) ==
    {f \in ps.set : value_eq(class_default(ps.cls, f), getattr(ps, f), TRUE)}

C18_DeltaMetadata ==
    (last.op = "delta_from" /\ last.err = "") =>
        LET self == heap[last.self]
            base == heap[last.other]
            ofdelta == to_yaml_form(heap[last.res], TRUE)
        IN  \A f \in pnames(self.cls) :
                IF meta(self, f).v = None
                THEN f \in Keys(ofdelta) => ~HasValueMeta(ofdelta.items[f])
                ELSE IF value_eq(getattr(base, f), getattr(self, f), TRUE)
                THEN f \notin Keys(ofdelta)
                ELSE /\ f \in Keys(ofdelta)
                     /\ ofdelta.items[f] = ValueMeta(Exported(getattr(self, f)), meta(self, f).v)

\* C19 as claimed (what a serialization includes): for every instance, the
\* keys of the compact form are, in schema order, the fields that are in the
\* explicit set or have a metadata entry, and the keys of the full form are
\* all the fields in schema order.
InSetOrMeta(ps, f) == f \in ps.set \/ f \in DOMAIN ps.meta

Alike(r1, r2) == IF r1.err # "" THEN r2.err # "" ELSE r1 = r2

\* The outcome of the assignment that the step has made, as the functions
\* above report outcomes.
Written == [err |-> last'.err, ps |-> heap'[last'.self]]

\* C20 as claimed (two styles of access): in every state, for every instance
\* and every name, ps.name and ps[name] return the same value or both raise;
\* and whenever ps[name] = v or ps.name = v is executed, the other style
\* would have raised too, or would have left the same instance.
C20_AccessStyles ==
    /\ [](\A i \in Live : \A n \in Names : Alike(attribute(heap[i], n), getitem(heap[i], n)))
    /\ [][last'.op \in {"setitem", "setattr"} =>
            Alike(Written,
                  IF last'.op = "setitem"
                  THEN setattr(heap[last'.self], last'.name, last'.arg)
                  ELSE setitem(heap[last'.self], last'.name, last'.arg))]_vars

\* What the two styles of read give for the name n on ps.
ReadStyles(ps, n) ==
    IF n \in pnames(ps.cls)
    THEN attribute(ps, n).err = "" /\ attribute(ps, n) = getitem(ps, n)
    ELSE getitem(ps, n).err = "nosuch" /\ (attribute(ps, n).err = "" <=> hasattr(ps, n))

\* C20 as amended: for a field of the instance's schema, the two styles of
\* read return the same value, and an assignment in either style does what
\* the other style would have done: both raise the locked error, or both
\* store the value and put the field in the explicit set.  For a name that
\* is not a field, the bracket read and the bracket assignment raise the
\* unknown-parameter error and change nothing, while the attribute read
\* returns the attribute if there is one, and the attribute assignment
\* raises on a locked instance and otherwise stores the attribute and leaves
\* the explicit set as it is.
C20_AccessStylesAmended ==
    /\ [](\A i \in Live : \A n \in Names : ReadStyles(heap[i], n))
    /\ [][last'.op \in {"setitem", "setattr"} =>
            LET ps == heap[last'.self]
                n == last'.name
                v == last'.arg
            IN  IF n \in pnames(ps.cls)
                THEN /\ Written = setattr(ps, n, v)
                     /\ Written = setitem(ps, n, v)
                     /\ Written.err = IF ps.locked THEN "locked" ELSE ""
                     /\ ~ps.locked => (getitem(Written.ps, n).v = v /\ Written.ps.set = ps.set \cup {n})
                ELSE /\ setitem(ps, n, v) = [err |-> "nosuch", ps |-> ps]
                     /\ setattr(ps, n, v).err = IF ps.locked THEN "locked" ELSE ""
                     /\ Written = IF last'.op = "setitem" THEN setitem(ps, n, v) ELSE setattr(ps, n, v)
                     /\ ~ps.locked =>
                           /\ attribute(setattr(ps, n, v).ps, n) = [err |-> "", v |-> v]
                           /\ setattr(ps, n, v).ps.set = ps.set]_vars

\* A bracket assignment of a field has just succeeded on an instance that
\* also holds, from an attribute assignment, an attribute that is no field:
\* the attribute reads back, and the bracket read of its name raises.
C20_Witness ==
    /\ last.op = "setitem"
    /\ last.err = ""
    /\ attribute(heap[last.self], last.name) = [err |-> "", v |-> last.arg]
    /\ last.name \in heap[last.self].set
    /\ \E n \in DOMAIN heap[last.self].attrs \ pnames(heap[last.self].cls) :
           /\ attribute(heap[last.self], n).err = ""
           /\ getitem(heap[last.self], n).err = "nosuch"

\* C21 (parameter_names): a call of parameter_names() on a class returns the
\* names of dataclasses.fields(cls), without the init-only pseudo-field; on
\* the derived class that is the parent's list followed by the names the
\* derived class adds, in the order of their declaration, and the
\* redeclared paramC keeps its place in it and has the derived class's
\* default.  The result depends on nothing but the class.
AddedNames(cls) ==
    LET IsNew(f) == ~f.initvar /\ f.name \notin pnames(dataclass_bases(cls)[1])
    IN  FieldNames(SelectSeq(own_annotations(cls), IsNew))

C21_ParameterNames ==
    last.op = "parameter_names" =>
        LET cls == last.cls
            fs == dataclasses_fields(cls)
        IN  /\ last.res = FieldNames(fs)
            /\ field_data(cls) = Range(FieldNames(dataclass_fields(cls)))
            /\ \A i \in DOMAIN fs : class_default(cls, fs[i].name) = fs[i].default
            /\ "not_a_param" \notin Range(last.res)
            /\ cls = "ChildPS" =>
                  /\ last.res = parameter_names("SamplePS") \o AddedNames(cls)
                  /\ \E i \in DOMAIN parameter_names("SamplePS") :
                         /\ parameter_names("SamplePS")[i] = "paramC"
                         /\ last.res[i] = "paramC"
                         /\ fs[i].default = own_annotations(cls)[1].default
                         /\ fs[i].default # dataclasses_fields("SamplePS")[i].default

\* parameter_names() has been called on the derived class.
C21_Witness ==
    /\ last.op = "parameter_names"
    /\ last.cls = "ChildPS"
    /\ Len(last.res) = 5
    /\ last.res[3] = "paramC"

\* C22 (value and metadata of an entry): after cls(data) returns, a field
\* whose entry in data is a mapping with the keys "value" and "meta" has
\* the "value" part as its value and the "meta" part as its metadata, and
\* a field whose entry is anything else has the entry as its value and no
\* metadata; a field without an entry has no metadata either.
Wrapped(raw) == IsDict(raw) /\ {"value", "meta"} \subseteq Keys(raw)

C22_ValueMetaSplit ==
    [][(last'.op = "construct" /\ last'.err = "") =>
        LET cls == last'.name
            data == last'.arg
            ps == heap'[last'.res]
        IN  \A f \in pnames(cls) :
                IF f \notin Keys(data) THEN meta(ps, f).v = None
                ELSE IF Wrapped(data.items[f])
                THEN /\ Exported(getitem(ps, f).v) = data.items[f].items["value"]
                     /\ meta(ps, f).v = data.items[f].items["meta"]
                ELSE /\ Exported(getitem(ps, f).v) = data.items[f]
                     /\ meta(ps, f).v = None]_vars

\* A construction from data with one entry in each form has returned.
C22_Witness ==
    /\ last.op = "construct"
    /\ last.err = ""
    /\ nops > 0
    /\ \E f \in Keys(last.arg) \cap pnames(last.name) :
           /\ Wrapped(last.arg.items[f])
           /\ IsStr(meta(heap[last.res], f).v)
           /\ IsDataFrame(getitem(heap[last.res], f).v)
    /\ \E f \in Keys(last.arg) \cap pnames(last.name) :
           /\ ~Wrapped(last.arg.items[f])
           /\ meta(heap[last.res], f).v = None

\* The values that all_zero makes equal, and the calls on two scalars.
PseudoZeros == {None, Str(""), NaN, Num(0)}

ScalarCall == last.op = "value_eq" /\ ~IsDataFrame(last.v1) /\ ~IsDataFrame(last.v2)

NoneOnlyNone ==
    /\ (last.v1 = None \/ last.v2 = None) => (last.res <=> (last.v1 = None /\ last.v2 = None))
    /\ (last.v1 = NaN /\ last.v2 = NaN) => last.res

\* C23 as claimed (value_eq of scalars): with all_zero, none, '', NaN and 0
\* are equal to each other, two strings are equal exactly if they are the
\* same string, and a number other than 0 is equal to none of none, '', NaN
\* and 0; without all_zero, none is equal to none and to nothing else, and
\* NaN is equal to NaN.
C23_ScalarEquality ==
    ScalarCall =>
        IF last.all_zero
        THEN /\ (last.v1 \in PseudoZeros /\ last.v2 \in PseudoZeros) => last.res
             /\ (IsStr(last.v1) /\ IsStr(last.v2)) => (last.res <=> last.v1 = last.v2)
             /\ \A p \in {<<last.v1, last.v2>>, <<last.v2, last.v1>>} :
                    (p[1].k = "num" /\ p[1].n # 0 /\ p[2] \in PseudoZeros) => ~last.res
        ELSE NoneOnlyNone

\* C23 as amended: as claimed, except that the number must be further from
\* 0 than the threshold to differ from none, '', NaN and 0; a number within
\* the threshold of 0 is equal to all of them.
C23_ScalarEqualityAmended ==
    ScalarCall =>
        IF last.all_zero
        THEN /\ (last.v1 \in PseudoZeros /\ last.v2 \in PseudoZeros) => last.res
             /\ (IsStr(last.v1) /\ IsStr(last.v2)) => (last.res <=> last.v1 = last.v2)
             /\ \A p \in {<<last.v1, last.v2>>, <<last.v2, last.v1>>} :
                    (p[1].k = "num" /\ p[2] \in PseudoZeros) => (last.res <=> Abs(p[1].n) <= Thresh)
        ELSE NoneOnlyNone

\* NaN has been compared with the empty string under all_zero.
C23_Witness ==
    /\ ScalarCall
    /\ last.all_zero
    /\ last.v1 = NaN
    /\ last.v2 = Str("")
    /\ last.res

\* A number at the threshold has been compared with none under all_zero.
C23_WitnessThreshold ==
    /\ ScalarCall
    /\ last.all_zero
    /\ last.v1 = None
    /\ last.v2 = Num(1)
    /\ last.res

\* C24 (value_eq of tables): a call on two tables returns true exactly if
\* they have the same row keys in the same order, the same column labels in
\* the same order, and value_eq, with the all_zero of the call, holds of the
\* two cells at every column and row; a call on a table and something that
\* is no table returns false, whichever argument the table is.
C24_TableEquality ==
    last.op = "value_eq" =>
        IF IsDataFrame(last.v1) /\ IsDataFrame(last.v2)
        THEN last.res <=>
                /\ last.v1.idx = last.v2.idx
                /\ last.v1.cols = last.v2.cols
                /\ \A i \in DOMAIN last.v1.cols : \A j \in DOMAIN last.v1.idx :
                       value_eq(last.v1.cell[last.v1.cols[i]][last.v1.idx[j]],
                                last.v2.cell[last.v2.cols[i]][last.v2.idx[j]],
                                last.all_zero)
        ELSE (IsDataFrame(last.v1) \/ IsDataFrame(last.v2)) => ~last.res

\* Two tables that differ only in which empty value their cells hold have
\* been found equal.
C24_Witness ==
    /\ last.op = "value_eq"
    /\ IsDataFrame(last.v1)
    /\ IsDataFrame(last.v2)
    /\ last.v1 # last.v2
    /\ last.all_zero
    /\ last.res

\* Two tables with the same rows in another order have been found unequal.
C24_WitnessOrder ==
    /\ last.op = "value_eq"
    /\ IsDataFrame(last.v1)
    /\ IsDataFrame(last.v2)
    /\ last.v1.cols = last.v2.cols
    /\ last.v1.idx # last.v2.idx
    /\ Range(last.v1.idx) = Range(last.v2.idx)
    /\ ~last.res

\* The entries of a list that a statistic is to look at.
KeptSamples(vs) == SelectSeq(vs, LAMBDA x : x \notin {None, Str(""), NaN})

\* The least number of samples each statistic can be computed from.
Needed(f) ==
    CASE f \in {"smin", "smax", "smean", "smedian", "spvar"} -> 1
      [] f \in {"ssdev", "slow_dev", "shi_dev"} -> 2
      [] f \in {"s25_ile", "s75_ile"} -> 3

\* C26 (summary statistics): every statistic returns what it returns on the
\* list without its none, empty-string and NaN entries, and returns NaN,
\* without raising, whenever fewer samples remain than it can be computed
\* from, none remaining included.
C26_StatisticsNaN ==
    last.op = "statistic" =>
        /\ last.res = statistic(last.f, KeptSamples(last.vs))
        /\ ~IsRaise(last.res)
        /\ Len(KeptSamples(last.vs)) < Needed(last.f) => last.res = NaN

\* The part of C26 that the code keeps: the empty entries are discarded
\* first, and no statistic but ssdev, slow_dev and shi_dev raises.
C26_Discards ==
    last.op = "statistic" =>
        /\ last.res = statistic(last.f, KeptSamples(last.vs))
        /\ last.f \notin {"ssdev", "slow_dev", "shi_dev"} =>
              /\ ~IsRaise(last.res)
              /\ Len(KeptSamples(last.vs)) < Needed(last.f) => last.res = NaN

\* A deviation has raised on a single sample.
C26_WitnessRaise ==
    /\ last.op = "statistic"
    /\ Len(KeptSamples(last.vs)) = 1
    /\ Len(last.vs) > 1
    /\ IsRaise(last.res)

\* C25 (copy never fails): whatever construction, set and set_meta calls
\* made the instance, ps.copy() raises nothing and returns a new instance
\* that is not locked.
C25_CopyNeverFails ==
    last.op = "copy" =>
        /\ last.err = ""
        /\ last.res \in Live \ {last.self}
        /\ ~heap[last.res].locked

\* The part of C25 that the code keeps: a copy that raises is a copy of an
\* instance whose tabular field was set to something that is no table.
C25_CopyFailsOnUntableable ==
    (last.op = "copy" /\ last.err # "") =>
        \E p \in pnames(heap[last.self].cls) :
            /\ pdtype(heap[last.self].cls, p)
            /\ p \in heap[last.self].set
            /\ getattr(heap[last.self], p) # None
            /\ ~IsDataFrame(getattr(heap[last.self], p))

\* C27 (explicit set of a delta): after self.delta_from(base) returns, with
\* base and self of the same schema, a field is in the explicit set of the
\* delta exactly if self's value of it is not value_eq to base's (a field
\* that self has at the default and base has not is therefore in it), and
\* the delta has self's value on every field of its explicit set.
C27_DeltaExplicitSet ==
    (/\ last.op = "delta_from"
     /\ last.err = ""
     /\ heap[last.self].cls = heap[last.other].cls) =>
        LET self == heap[last.self]
            base == heap[last.other]
            delta == heap[last.res]
        IN  \A f \in pnames(self.cls) :
                /\ f \in delta.set <=> ~value_eq(getattr(self, f), getattr(base, f), TRUE)
                /\ f \in delta.set => getattr(delta, f) = getattr(self, f)

\* The fields whose value an instance holds outside its explicit set.
Hidden(ps) ==
    {f \in pnames(ps.cls) \ ps.set : getattr(ps, f) # class_default(ps.cls, f)}

\* The part of C27 that the code keeps: the claim holds of every self that
\* holds no value outside its explicit set.
C27_WithoutHidden ==
    (last.op = "delta_from" /\ last.err = "" /\ Hidden(heap[last.self]) = {})
        => C27_DeltaExplicitSet

C28_CopyExplicitSame ==
    (last.op = "copy" /\ last.err = "") =>
        heap[last.res].set = heap[last.self].set

\* A copy has been made of an instance that set some fields and not others.
C28_Witness ==
    /\ last.op = "copy"
    /\ last.err = ""
    /\ heap[last.self].set # {}
    /\ heap[last.self].set # pnames(heap[last.self].cls)
    /\ heap[last.res].set = heap[last.self].set

\* What a bracket assignment or a set_meta call that returned has stored.
Stored(op, ps, n) == IF op = "set_meta" THEN meta(ps, n).v ELSE getattr(ps, n)

C29_WitnessMeta ==
    /\ last.op = "set_meta"
    /\ last.err = "locked"
    /\ last.name \notin pnames(heap[last.self].cls)

\* C30 (frame of set_meta): a set_meta(name, text) call that returns has
\* made text the metadata of name and put name in the explicit set; every
\* value, every other metadata entry, the lock flag and every other instance
\* are as before; and name is a key of the compact serialization, whether
\* or not its value was ever assigned.
C30_SetMetaFrame ==
    [][(last'.op = "set_meta" /\ last'.err = "") =>
          LET ps == heap[last'.self]
              after == heap'[last'.self]
              n == last'.name
          IN  /\ meta(after, n).v = last'.arg
              /\ after.set = ps.set \cup {n}
              /\ after.attrs = ps.attrs
              /\ \A f \in pnames(ps.cls) : getattr(after, f) = getattr(ps, f)
              /\ DOMAIN after.meta = DOMAIN ps.meta \cup {n}
              /\ \A f \in DOMAIN ps.meta \ {n} : after.meta[f] = ps.meta[f]
              /\ after.locked = ps.locked
              /\ after.cls = ps.cls
              /\ \A j \in Slots \ {last'.self} : heap'[j] = heap[j]
              /\ n \in Keys(to_yaml_form(after, TRUE))]_vars

\* A set_meta call has returned for a field that was never assigned and
\* that carries other metadata than the instance had: the field is in the
\* compact serialization with its default value and the text.
C30_Witness ==
    /\ last.op = "set_meta"
    /\ last.err = ""
    /\ last.arg # None
    /\ last.name \notin DOMAIN heap[last.self].attrs
    /\ DOMAIN heap[last.self].meta # {last.name}
    /\ last.name \in Keys(to_yaml_form(heap[last.self], TRUE))
    /\ to_yaml_form(heap[last.self], TRUE).items[last.name] =
           ValueMeta(class_default(heap[last.self].cls, last.name), last.arg)

\* C31 (explicit set and metadata within the schema): in every reachable
\* state, the explicit set of every instance and the keys of its metadata
\* are names of fields of its schema.
C31_WithinSchema ==
    \A i \in Live :
        /\ heap[i].set \subseteq pnames(heap[i].cls)
        /\ DOMAIN heap[i].meta \subseteq pnames(heap[i].cls)

\* An instance holds an attribute that is no field, next to explicitly set
\* fields and metadata.
C31_Witness ==
    \E i \in Live :
        /\ DOMAIN heap[i].attrs \ pnames(heap[i].cls) # {}
        /\ heap[i].set # {}
        /\ DOMAIN heap[i].meta # {}

\* The attributes of a class that are readable but are no parameters.
Auxiliary(cls) == field_data(cls) \ pnames(cls)

\* No instance has a trace of an auxiliary attribute: it is readable, the
\* bracket read raises, and it is in no explicit set, metadata or
\* serialization.
AuxiliaryUntracked ==
    \A i \in Live : \A n \in Auxiliary(heap[i].cls) :
        /\ attribute(heap[i], n).err = ""
        /\ getitem(heap[i], n).err = "nosuch"
        /\ n \notin heap[i].set
        /\ n \notin DOMAIN heap[i].meta
        /\ n \notin Keys(to_yaml_form(heap[i], TRUE))
        /\ n \notin Keys(to_yaml_form(heap[i], FALSE))

\* An attribute assignment of an auxiliary attribute that returns leaves
\* the explicit set as it was, and a bracket assignment of it raises.
AuxiliaryAssignment ==
    (last'.op \in {"setattr", "setitem"} /\ last'.name \in Auxiliary(heap[last'.self].cls)) =>
        IF last'.op = "setitem" THEN last'.err = "nosuch" /\ heap' = heap
        ELSE last'.err = "" => heap'[last'.self].set = heap[last'.self].set

\* C32 (auxiliary attributes): an attribute of the class that is no
\* parameter is never in an explicit set, in metadata or in a
\* serialization; the bracket read of it raises; an attribute assignment of
\* it marks nothing explicit; and a construction from data with its name as
\* a key warns, drops the key and returns an instance.
C32_AuxiliaryAttribute ==
    /\ []AuxiliaryUntracked
    /\ [][/\ AuxiliaryAssignment
          /\ (/\ last'.op = "construct"
              /\ Keys(last'.arg) \cap Auxiliary(last'.name) # {}
              /\ TablesWellFormed(last'.name, last'.arg))
             => (/\ last'.err = ""
                 /\ last'.warned
                 /\ heap'[last'.res].set = Keys(last'.arg) \cap pnames(last'.name))]_vars

\* The part of C32 that the code keeps: everything but the construction.
C32_AuxiliaryKept ==
    []AuxiliaryUntracked /\ [][AuxiliaryAssignment]_vars

\* C33 (a Scenario locks its parameters): a call of load_scenario with a
\* parameter set returns a Scenario whose params() is that set, and leaves
\* the set locked.
C33_ScenarioLocks ==
    [][last'.op = "load_scenario" =>
          /\ last'.err = ""
          /\ last'.res = [k |-> "scenario", params |-> PSRef(last'.self)]
          /\ heap'[last'.self].locked]_vars

\* What the code does instead: every call of load_scenario with a parameter
\* set raises AttributeError and leaves every instance as it was.
C33_LoadScenarioRaises ==
    [][last'.op = "load_scenario" =>
          (last'.err = "noattr" /\ last'.res = None /\ heap' = heap)]_vars

\* load_scenario has raised, and the instance it was given is not locked.
C33_WitnessUnlocked ==
    /\ last.op = "load_scenario"
    /\ last.err = "noattr"
    /\ ~heap[last.self].locked

\* Thread u has called lock() and has returned from it without an error.
LockCompleted(u) == pc[u].op = "lock" /\ pc[u].at = "done" /\ pc[u].err = ""

\* C34 (set and lock in two threads): the lock is looked at in the test
\* only.  A thread that is past its test stores its value or its metadata
\* entry into the instance whatever the lock flag is at the time of the
\* store, and marks the name as set afterwards, again whatever the flag is;
\* so the contents of an instance change after another thread's lock() has
\* completed, if that thread's test came before.
C34_StoreAfterLock ==
    [][(last'.op = "step" /\ last'.at \in {"store", "meta_store", "mark", "meta_mark"}) =>
          LET t == last'.thread
              ps == heap[Shared]
              n == pc[t].name
          IN  /\ pc[t].err = ""
              /\ heap'[Shared] =
                    CASE last'.at = "store" -> object_setattr(ps, n, pc[t].arg)
                      [] last'.at = "meta_store" -> store_meta(ps, n, pc[t].arg)
                      [] last'.at = "mark" -> mark_set(ps, n)
                      [] last'.at = "meta_mark" -> [ps EXCEPT !.set = @ \cup {n}]
              /\ (last'.at = "store" /\ n # "_locked") => getattr(heap'[Shared], n) = pc[t].arg
              /\ last'.at = "meta_store" => meta(heap'[Shared], n).v = pc[t].arg]_vars

\* A thread has stored a value into the instance after the lock() of the
\* other thread had completed: the instance was locked, and it has changed.
C34_Witness ==
    /\ last.op = "step"
    /\ last.at = "store"
    /\ last.call \in {"setitem", "setattr"}
    /\ last.locked
    /\ heap[Shared].locked
    /\ \E u \in Threads \ {last.thread} : LockCompleted(u)
    /\ getattr(heap[Shared], pc[last.thread].name) = pc[last.thread].arg
    /\ pc[last.thread].arg # class_default(heap[Shared].cls, pc[last.thread].name)

\* The same for a metadata entry.
C34_WitnessMeta ==
    /\ last.op = "step"
    /\ last.at = "meta_store"
    /\ last.locked
    /\ \E u \in Threads \ {last.thread} : LockCompleted(u)
    /\ heap[Shared].meta[pc[last.thread].name] = pc[last.thread].arg

\* C35 as claimed (implicit means default): in every reachable state, every
\* field of an instance that is not in its explicit set reports the default
\* of the schema.
C35_ImplicitIsDefault ==
    \A i \in Live : \A f \in pnames(heap[i].cls) \ heap[i].set :
        getattr(heap[i], f) = class_default(heap[i].cls, f)

\* C35 as amended: in every reachable state, a field that is not in the
\* explicit set reports the default of the schema, unless the instance was
\* returned by delta_from; the result of self.delta_from(base) reports, on
\* a field outside its explicit set, the default or a value that is value_eq
\* to base's.
C35_ImplicitIsDefaultAmended ==
    /\ [](\A i \in Live : origin[i].op # "delta_from" => Hidden(heap[i]) = {})
    /\ [][(last'.op = "delta_from" /\ last'.err = "") =>
             \A f \in Hidden(heap'[last'.res]) :
                 value_eq(getattr(heap'[last'.res], f), getattr(heap[last'.other], f), TRUE)]_vars

\* delta_from has returned an instance that reports, outside its explicit
\* set, a value that is not the default.
C35_Witness ==
    /\ last.op = "delta_from"
    /\ last.err = ""
    /\ Hidden(heap[last.res]) # {}
    /\ \E i \in Live \ {last.res} : heap[i].set # {} /\ origin[i].op # "delta_from"

\* C36 (lock is idempotent): a call of lock() on a locked instance returns
\* without an error and leaves the instance locked.
C36_LockIdempotent ==
    [][(last'.op = "lock" /\ heap[last'.self].locked) =>
          (last'.err = "" /\ heap'[last'.self].locked)]_vars

\* What the code does instead: lock() on a locked instance raises the
\* locked error, and leaves every instance as it was; lock() on an unlocked
\* instance returns and changes the lock flag only.
C36_SecondLockRaises ==
    [][last'.op = "lock" =>
          IF heap[last'.self].locked
          THEN last'.err = "locked" /\ heap' = heap
          ELSE /\ last'.err = ""
               /\ heap' = [heap EXCEPT ![last'.self].locked = TRUE]]_vars

\* C37 (operands are left alone): a call of copy, merged_with or delta_from,
\* whether it returns or raises, leaves every instance that existed before
\* it, self and the argument among them, as it was: values, metadata,
\* explicit set and lock flag; and the serialization of an instance, which
\* these calls take of self, is the same after the call as before.
C37_OperandsUnchanged ==
    [][last'.op \in {"copy", "merged_with", "delta_from"} =>
          /\ \A i \in Live : heap'[i] = heap[i]
          /\ \A i \in Live :
                /\ to_yaml_form(heap'[i], TRUE) = to_yaml_form(heap[i], TRUE)
                /\ to_yaml_form(heap'[i], FALSE) = to_yaml_form(heap[i], FALSE)
          /\ last'.err = "" => last'.res \notin Live]_vars

\* A merge of two instances that set different things has returned a third
\* that is like neither.
C37_Witness ==
    /\ last.op = "merged_with"
    /\ last.err = ""
    /\ last.self # last.other
    /\ heap[last.self].set # {}
    /\ heap[last.other].set # {}
    /\ heap[last.res].attrs # heap[last.self].attrs
    /\ heap[last.res].attrs # heap[last.other].attrs

\* A delta has raised, with a self that has set fields.
C37_WitnessFailed ==
    /\ last.op = "delta_from"
    /\ last.err # ""
    /\ heap[last.self].set # {}

\* C38 (delta across schemas): a call self.delta_from(base) raises the
\* unknown-parameter error and returns nothing if the schema of self has a
\* field that the schema of base has not, and returns a result if the
\* schema of base has every field of the schema of self.
C38_DeltaAcrossSchemas ==
    [][last'.op = "delta_from" =>
          IF pnames(heap[last'.self].cls) \subseteq pnames(heap[last'.other].cls)
          THEN last'.err = ""
          ELSE last'.err = "nosuch" /\ last'.res = 0 /\ heap' = heap]_vars

\* The part of C38 that the code keeps: the claim holds of every self of
\* which a copy can be made.
C38_DeltaOfCopyable ==
    [][(last'.op = "delta_from" /\ copy(heap[last'.self]).err = "") =>
          IF pnames(heap[last'.self].cls) \subseteq pnames(heap[last'.other].cls)
          THEN last'.err = ""
          ELSE last'.err = "nosuch" /\ last'.res = 0 /\ heap' = heap]_vars

\* A delta of a derived-schema instance from a parent-schema base has raised
\* the unknown-parameter error.
C38_WitnessDerived ==
    /\ last.op = "delta_from"
    /\ last.err = "nosuch"
    /\ heap[last.self].cls = "ChildPS"
    /\ heap[last.other].cls = "SamplePS"

\* d.delta_from(base) has the explicit set of d and the values of d on it.
Stable(d, base) ==
    LET again == delta_from(d, base)
    IN  again.err = "" =>
            /\ again.ps.set = d.set
            /\ \A f \in d.set : getattr(again.ps, f) = getattr(d, f)

\* C39 (a delta taken again): for every two instances base and ps of the
\* same schema, if d = ps.delta_from(base) returns, then d.delta_from(base)
\* has the same explicit set as d and, on every field of it, the value of d.
C39_DeltaStable ==
    \A b \in Live, p \in Live :
        heap[b].cls = heap[p].cls =>
            LET d == delta_from(heap[p], heap[b])
            IN  d.err = "" => Stable(d.ps, heap[b])

\* The part of C39 that the code keeps: the claim holds of every delta that
\* holds no value outside its explicit set.
C39_StableWithoutHidden ==
    \A b \in Live, p \in Live :
        heap[b].cls = heap[p].cls =>
            LET d == delta_from(heap[p], heap[b])
            IN  (d.err = "" /\ Hidden(d.ps) = {}) => Stable(d.ps, heap[b])

\* Two instances report the same value and metadata on every field and have
\* the same explicit set.
SameReport(ps1, ps2) ==
    /\ ps1.cls = ps2.cls
    /\ SameValues(ps1, ps2, pnames(ps1.cls))
    /\ SameMeta(ps1, ps2, pnames(ps1.cls))
    /\ ps1.set = ps2.set

====
